---- MODULE Spec2Model ----
(***************************************************************************)
(* Ledger engine of the coffee fund backend: users, products, consumptions,*)
(* dual-control money moves, the balance calculator and the audit log.     *)
(*                                                                         *)
(* Every request handler runs in its own database session.  A handler is   *)
(* split at its db.commit() calls: the reads and checks that precede the    *)
(* first commit are one step (Begin), each commit is one step, and the      *)
(* audit write (AuditService.log_action, a commit of its own) is the last   *)
(* step.  Steps of different sessions interleave freely.                    *)
(***************************************************************************)
EXTENDS Integers, Sequences, FiniteSets, TLC

\* ---------------------------------------------------------------- bounds
NumUsers == 3
NumSessions == 2
MaxRequests == 3
MaxMoves == 1
MaxConsumptions == 1
MaxAmount == 1
MaxQty == 2
MaxPrice == 2

Null == 0
Users == 1..NumUsers
Sessions == 1..NumSessions
ProductRows == {1}
\* request inputs: one id more than the rows that exist, for the not-found paths
ProductIds == {1, 2}
MoveIds == 1..(MaxMoves + 1)
Amounts == 1..MaxAmount
\* threshold_cents of the threshold queries
Thresholds == (0 - MaxAmount)..MaxAmount
\* amount_cents: int, what the request schema accepts
AmountInputs == (0 - MaxAmount)..MaxAmount
Qtys == 1..MaxQty
\* ConsumptionCreate.qty is a plain int
QtyInputs == (0 - MaxQty)..MaxQty
Prices == 1..MaxPrice

VARIABLES users, products, consumptions, money_moves, audit, clock, sess, resp, nreq

vars == <<users, products, consumptions, money_moves, audit, clock, sess, resp, nreq>>
db == <<users, products, consumptions, money_moves, audit>>

\* ------------------------------------------------------------ enumerations
UserRole == {"user", "treasurer", "admin"}
MoneyMoveType == {"deposit", "payout"}
MoneyMoveStatus == {"pending", "confirmed", "rejected"}
AuditAction == {"create", "update", "delete", "confirm", "reject"}

\* ------------------------------------------------------------------- rows
NoUser == [exists |-> FALSE, role |-> "user", is_active |-> FALSE, is_deleted |-> FALSE]

User(role) == [exists |-> TRUE, role |-> role, is_active |-> TRUE, is_deleted |-> FALSE]

Product(price) == [price_cents |-> price, is_active |-> TRUE]

MoneyMove(type, user_id, amount_cents, created_by) ==
    [type |-> type, user_id |-> user_id, amount_cents |-> amount_cents,
     created_by |-> created_by, status |-> "pending",
     confirmed_at |-> Null, confirmed_by |-> Null]

Consumption(user_id, product_id, qty, unit_price_cents, amount_cents, created_by) ==
    [user_id |-> user_id, product_id |-> product_id, qty |-> qty,
     unit_price_cents |-> unit_price_cents, amount_cents |-> amount_cents,
     created_by |-> created_by]

\* at: server_default func.now(), the clock reading when the row is written
Audit(actor_id, action, entity, entity_id, at) ==
    [actor_id |-> actor_id, action |-> action, entity |-> entity, entity_id |-> entity_id,
     at |-> at]

\* --------------------------------------------------------------- sessions
Idle == [pc |-> "idle", op |-> "", actor |-> Null, id |-> Null, user_id |-> Null,
         type |-> "", amount |-> 0, qty |-> 0, price |-> 0, flag |-> FALSE, role |-> "",
         seen |-> {}]

NoResp == [op |-> "", result |-> "", refused |-> FALSE, balance_cents |-> 0]

Response(op, result, refused) ==
    [op |-> op, result |-> result, refused |-> refused, balance_cents |-> 0]

\* A refused request changes nothing but the response.  The model records the
\* refusal and does not continue from it: every continuation is a continuation
\* of the state before the request.
Ready(s, pc) == sess[s].pc = pc /\ ~resp.refused

\* Sessions are interchangeable workers: a new request is taken by the
\* lowest-numbered session that is idle.
Free(s) == Ready(s, "idle") /\ \A s2 \in Sessions : s2 < s => sess[s2].pc # "idle"

UserExists(u) == u \in Users /\ users[u].exists

InFlight(op) == Cardinality({s \in Sessions : sess[s].op = op /\ sess[s].pc = "commit"})

\* ------------------------------------------------------- balance calculator
RECURSIVE consumption_total(_, _, _)
consumption_total(cons, user_id, n) ==
    IF n = 0 THEN 0
    ELSE consumption_total(cons, user_id, n - 1) +
         (IF cons[n].user_id = user_id THEN cons[n].amount_cents ELSE 0)

MoneyMoveCaseUnsigned(mm) ==
    IF mm.type = "deposit" THEN mm.amount_cents
    ELSE IF mm.type = "payout" THEN mm.amount_cents
    ELSE 0

MoneyMoveCase(mm) ==
    IF mm.type = "deposit" THEN mm.amount_cents
    ELSE IF mm.type = "payout" THEN 0 - mm.amount_cents
    ELSE 0

MoneyMoveFilterNoStatus(mm, user_id) == mm.user_id = user_id

MoneyMoveFilter(mm, user_id) == mm.user_id = user_id /\ mm.status = "confirmed"

RECURSIVE money_move_total(_, _, _)
money_move_total(moves, user_id, n) ==
    IF n = 0 THEN 0
    ELSE money_move_total(moves, user_id, n - 1) +
         (IF MoneyMoveFilter(moves[n], user_id) THEN MoneyMoveCase(moves[n]) ELSE 0)

get_user_balance_of(moves, cons, user_id) ==
    money_move_total(moves, user_id, Len(moves)) - consumption_total(cons, user_id, Len(cons))

get_user_balance(user_id) == get_user_balance_of(money_moves, consumptions, user_id)

\* db.query(User).filter(is_active, not is_deleted).all(), then one
\* get_user_balance per user, in the order of the rows
RECURSIVE get_all_user_balances_upto(_)
get_all_user_balances_upto(n) ==
    IF n = 0 THEN <<>>
    ELSE LET rest == get_all_user_balances_upto(n - 1) IN
         IF users[n].exists /\ users[n].is_active /\ ~users[n].is_deleted
         THEN Append(rest, [user |-> n, balance_cents |-> get_user_balance(n)])
         ELSE rest

get_all_user_balances == get_all_user_balances_upto(NumUsers)

IsBelow(balance, threshold_cents) == balance.balance_cents < threshold_cents

IsAboveStrict(balance, threshold_cents) == balance.balance_cents > threshold_cents

IsAbove(balance, threshold_cents) == balance.balance_cents >= threshold_cents

get_users_below_threshold(threshold_cents) ==
    SelectSeq(get_all_user_balances, LAMBDA balance : IsBelow(balance, threshold_cents))

get_users_above_threshold(threshold_cents) ==
    SelectSeq(get_all_user_balances, LAMBDA balance : IsAbove(balance, threshold_cents))

\* ------------------------------------------------------------ initial state
\* The directory after bootstrap: user 1 is the bootstrap admin (created without
\* an audit entry), every other user was created by it through create_user,
\* which logs one "create"/"user" entry per user.
InitialRole(u) == IF u = 1 THEN "admin" ELSE IF u % 2 = 0 THEN "treasurer" ELSE "user"

RECURSIVE InitialAudit(_)
InitialAudit(n) ==
    IF n <= 1 THEN <<>>
    ELSE Append(InitialAudit(n - 1), Audit(1, "create", "user", n, n - NumUsers - 1))

Init ==
    /\ users = [u \in Users |-> User(InitialRole(u))]
    /\ products = [p \in ProductRows |-> Product(1)]
    /\ consumptions = <<>>
    /\ money_moves = <<>>
    /\ audit = InitialAudit(NumUsers)
    /\ clock = 0
    /\ sess = [s \in Sessions |-> Idle]
    /\ resp = NoResp
    /\ nreq = 0

\* ----------------------------------------------------------- step helpers
Return(s, op, result) ==
    /\ sess' = [sess EXCEPT ![s] = Idle]
    /\ resp' = Response(op, result, FALSE)

Stage(s, rec) ==
    /\ sess' = [sess EXCEPT ![s] = rec]
    /\ resp' = NoResp

\* A balance read in progress notes every balance the committed store shows
\* for its user while it runs (seen): the record the read's result is judged by.
Observe(rec, moves, cons) ==
    IF rec.op = "get_user_balance"
    THEN [rec EXCEPT !.seen = @ \cup {get_user_balance_of(moves, cons, rec.user_id)}]
    ELSE rec

\* Stage for a commit that leaves the tables moves and cons behind
StageCommitted(s, rec, moves, cons) ==
    /\ sess' = [x \in Sessions |-> IF x = s THEN rec ELSE Observe(sess[x], moves, cons)]
    /\ resp' = NoResp

\* a request that passes its checks is admitted against the request budget
Admit(s, rec) ==
    /\ nreq < MaxRequests
    /\ nreq' = nreq + 1
    /\ Stage(s, rec)

Refuse(s, op, result) ==
    /\ nreq' = nreq
    /\ sess' = sess
    /\ resp' = Response(op, result, TRUE)

\* ------------------------------------------------------- create_money_move
CreateMoneyMoveCheck(user_id, creator_id) ==
    IF ~UserExists(user_id) THEN "404 User not found"
    ELSE IF ~UserExists(creator_id) THEN "404 Creator not found"
    ELSE IF users[creator_id].role # "treasurer" THEN "403 Only treasurers can create money moves"
    ELSE "ok"

CreateMoneyMoveBegin(s, type, user_id, amount_cents, creator_id) ==
    /\ Free(s)
    /\ Len(money_moves) + InFlight("create_money_move") < MaxMoves
    /\ LET r == CreateMoneyMoveCheck(user_id, creator_id) IN
       IF r = "ok"
       THEN Admit(s, [Idle EXCEPT !.pc = "commit", !.op = "create_money_move",
                                  !.actor = creator_id, !.user_id = user_id,
                                  !.type = type, !.amount = amount_cents])
       ELSE Refuse(s, "create_money_move", r)
    /\ UNCHANGED <<db, clock>>

\* db.add + db.commit: the INSERT is checked against the foreign keys to users
CreateMoneyMoveCommit(s) ==
    /\ Ready(s, "commit")
    /\ sess[s].op = "create_money_move"
    /\ IF UserExists(sess[s].user_id) /\ UserExists(sess[s].actor)
       THEN /\ money_moves' = Append(money_moves,
                    MoneyMove(sess[s].type, sess[s].user_id, sess[s].amount, sess[s].actor))
            /\ Stage(s, [sess[s] EXCEPT !.pc = "audit", !.id = Len(money_moves) + 1])
       ELSE /\ money_moves' = money_moves
            /\ Return(s, "create_money_move", "500 IntegrityError")
    /\ UNCHANGED <<users, products, consumptions, audit, clock, nreq>>

\* -------------------------------------------------------- confirm / reject
ConfirmCheckNoSelf(money_move_id, confirmer_id) ==
    IF money_move_id \notin DOMAIN money_moves THEN "404 Money move not found"
    ELSE IF money_moves[money_move_id].status # "pending" THEN "400 Money move is not pending"
    ELSE IF ~UserExists(confirmer_id) THEN "404 Confirmer not found"
    ELSE "ok"

ConfirmCheckNoStatus(money_move_id, confirmer_id) ==
    IF money_move_id \notin DOMAIN money_moves THEN "404 Money move not found"
    ELSE IF ~UserExists(confirmer_id) THEN "404 Confirmer not found"
    ELSE IF money_moves[money_move_id].created_by = confirmer_id THEN "400 Cannot confirm own money move"
    ELSE "ok"

ConfirmCheck(money_move_id, confirmer_id) ==
    IF money_move_id \notin DOMAIN money_moves THEN "404 Money move not found"
    ELSE IF money_moves[money_move_id].status # "pending" THEN "400 Money move is not pending"
    ELSE IF ~UserExists(confirmer_id) THEN "404 Confirmer not found"
    ELSE IF money_moves[money_move_id].created_by = confirmer_id THEN "400 Cannot confirm own money move"
    ELSE "ok"

RejectCheckNotOwn(money_move_id, rejector_id) ==
    IF money_move_id \notin DOMAIN money_moves THEN "404 Money move not found"
    ELSE IF money_moves[money_move_id].status # "pending" THEN "400 Money move is not pending"
    ELSE IF ~UserExists(rejector_id) THEN "404 Rejector not found"
    ELSE IF money_moves[money_move_id].created_by = rejector_id THEN "400 Cannot reject own money move"
    ELSE "ok"

RejectCheck(money_move_id, rejector_id) ==
    IF money_move_id \notin DOMAIN money_moves THEN "404 Money move not found"
    ELSE IF money_moves[money_move_id].status # "pending" THEN "400 Money move is not pending"
    ELSE IF ~UserExists(rejector_id) THEN "404 Rejector not found"
    ELSE "ok"

ConfirmMoneyMoveBegin(s, money_move_id, confirmer_id) ==
    /\ Free(s)
    /\ LET r == ConfirmCheck(money_move_id, confirmer_id) IN
       IF r = "ok"
       THEN Admit(s, [Idle EXCEPT !.pc = "commit", !.op = "confirm_money_move",
                                  !.actor = confirmer_id, !.id = money_move_id])
       ELSE Refuse(s, "confirm_money_move", r)
    /\ UNCHANGED <<db, clock>>

RejectMoneyMoveBegin(s, money_move_id, rejector_id) ==
    /\ Free(s)
    /\ LET r == RejectCheck(money_move_id, rejector_id) IN
       IF r = "ok"
       THEN Admit(s, [Idle EXCEPT !.pc = "commit", !.op = "reject_money_move",
                                  !.actor = rejector_id, !.id = money_move_id])
       ELSE Refuse(s, "reject_money_move", r)
    /\ UNCHANGED <<db, clock>>

\* The ORM flushes the three changed attributes as
\*   UPDATE money_moves SET status, confirmed_at, confirmed_by WHERE id = :id
\* with no condition on the status the handler read earlier.
ResolveStatusOnly(mm, status, at, by) == [mm EXCEPT !.status = status]

Resolve(mm, status, at, by) ==
    [mm EXCEPT !.status = status, !.confirmed_at = at, !.confirmed_by = by]

ConfirmMoneyMoveCommit(s) ==
    /\ Ready(s, "commit")
    /\ sess[s].op = "confirm_money_move"
    /\ IF UserExists(sess[s].actor)
       THEN /\ money_moves' = [money_moves EXCEPT ![sess[s].id] =
                                   Resolve(@, "confirmed", clock + 1, sess[s].actor)]
            /\ clock' = clock + 1
            /\ StageCommitted(s, [sess[s] EXCEPT !.pc = "audit"],
                              [money_moves EXCEPT ![sess[s].id] =
                                  Resolve(@, "confirmed", clock + 1, sess[s].actor)],
                              consumptions)
       ELSE /\ UNCHANGED <<money_moves, clock>>
            /\ Return(s, "confirm_money_move", "500 IntegrityError")
    /\ UNCHANGED <<users, products, consumptions, audit, nreq>>

RejectMoneyMoveCommit(s) ==
    /\ Ready(s, "commit")
    /\ sess[s].op = "reject_money_move"
    /\ IF UserExists(sess[s].actor)
       THEN /\ money_moves' = [money_moves EXCEPT ![sess[s].id] =
                                   Resolve(@, "rejected", clock + 1, sess[s].actor)]
            /\ clock' = clock + 1
            /\ StageCommitted(s, [sess[s] EXCEPT !.pc = "audit"],
                              [money_moves EXCEPT ![sess[s].id] =
                                  Resolve(@, "rejected", clock + 1, sess[s].actor)],
                              consumptions)
       ELSE /\ UNCHANGED <<money_moves, clock>>
            /\ Return(s, "reject_money_move", "500 IntegrityError")
    /\ UNCHANGED <<users, products, consumptions, audit, nreq>>

\* ------------------------------------------------------- create_consumption
\* user_or_treasurer_actor (the PIN comparison is the input pin_ok), then the
\* handler's own checks
CreateConsumptionCheckAnyProduct(actor_id, pin_ok, user_id, product_id) ==
    IF ~UserExists(actor_id) THEN "404 Actor not found"
    ELSE IF ~users[actor_id].is_active THEN "403 Actor inactive"
    ELSE IF ~pin_ok THEN "403 Invalid PIN"
    ELSE IF ~UserExists(user_id) THEN "404 User not found"
    ELSE IF users[actor_id].role # "treasurer" /\ actor_id # user_id
         THEN "403 Not authorized to book for this user"
    ELSE IF product_id \notin DOMAIN products THEN "404 Product not found or inactive"
    ELSE "ok"

CreateConsumptionCheckAnyActor(actor_id, pin_ok, user_id, product_id) ==
    IF ~UserExists(actor_id) THEN "404 Actor not found"
    ELSE IF ~users[actor_id].is_active THEN "403 Actor inactive"
    ELSE IF ~pin_ok THEN "403 Invalid PIN"
    ELSE IF ~UserExists(user_id) THEN "404 User not found"
    ELSE IF ~(product_id \in DOMAIN products /\ products[product_id].is_active)
         THEN "404 Product not found or inactive"
    ELSE "ok"

CreateConsumptionCheck(actor_id, pin_ok, user_id, product_id) ==
    IF ~UserExists(actor_id) THEN "404 Actor not found"
    ELSE IF ~users[actor_id].is_active THEN "403 Actor inactive"
    ELSE IF ~pin_ok THEN "403 Invalid PIN"
    ELSE IF ~UserExists(user_id) THEN "404 User not found"
    ELSE IF users[actor_id].role # "treasurer" /\ actor_id # user_id
         THEN "403 Not authorized to book for this user"
    ELSE IF ~(product_id \in DOMAIN products /\ products[product_id].is_active)
         THEN "404 Product not found or inactive"
    ELSE "ok"

\* amount_cents = unit_price_cents * consumption.qty
consumption_amount_cents_no_qty(unit_price_cents, qty) == unit_price_cents

consumption_amount_cents(unit_price_cents, qty) == unit_price_cents * qty

CreateConsumptionBegin(s, actor_id, pin_ok, user_id, product_id, qty) ==
    /\ Free(s)
    /\ Len(consumptions) + InFlight("create_consumption") < MaxConsumptions
    /\ LET r == CreateConsumptionCheck(actor_id, pin_ok, user_id, product_id) IN
       IF r = "ok"
       THEN Admit(s, [Idle EXCEPT !.pc = "commit", !.op = "create_consumption",
                                  !.actor = actor_id, !.user_id = user_id, !.id = product_id,
                                  !.qty = qty, !.price = products[product_id].price_cents,
                                  !.amount = consumption_amount_cents(
                                                 products[product_id].price_cents, qty)])
       ELSE Refuse(s, "create_consumption", r)
    /\ UNCHANGED <<db, clock>>

CreateConsumptionCommit(s) ==
    /\ Ready(s, "commit")
    /\ sess[s].op = "create_consumption"
    /\ IF UserExists(sess[s].user_id) /\ UserExists(sess[s].actor)
       THEN /\ consumptions' = Append(consumptions,
                    Consumption(sess[s].user_id, sess[s].id, sess[s].qty, sess[s].price,
                                sess[s].amount, sess[s].actor))
            /\ StageCommitted(s, [sess[s] EXCEPT !.pc = "audit", !.id = Len(consumptions) + 1],
                              money_moves,
                              Append(consumptions,
                                  Consumption(sess[s].user_id, sess[s].id, sess[s].qty,
                                              sess[s].price, sess[s].amount, sess[s].actor)))
       ELSE /\ consumptions' = consumptions
            /\ Return(s, "create_consumption", "500 IntegrityError")
    /\ UNCHANGED <<users, products, money_moves, audit, clock, nreq>>

\* ----------------------------------------------------------- update_product
\* field is the one attribute the ProductUpdate body sets; actor_id may be absent
UpdateProductBegin(s, product_id, field, price_cents, is_active, actor_id) ==
    /\ Free(s)
    /\ IF product_id \in DOMAIN products
       THEN Admit(s, [Idle EXCEPT !.pc = "commit", !.op = "update_product",
                                  !.actor = actor_id, !.id = product_id, !.type = field,
                                  !.price = IF field = "price_cents" THEN price_cents ELSE 0,
                                  !.flag = IF field = "is_active" THEN is_active ELSE FALSE])
       ELSE Refuse(s, "update_product", "404 Product not found")
    /\ UNCHANGED <<db, clock>>

UpdateProductCommit(s) ==
    /\ Ready(s, "commit")
    /\ sess[s].op = "update_product"
    /\ products' = [products EXCEPT ![sess[s].id] =
                       IF sess[s].type = "price_cents"
                       THEN [@ EXCEPT !.price_cents = sess[s].price]
                       ELSE [@ EXCEPT !.is_active = sess[s].flag]]
    /\ IF sess[s].actor # Null
       THEN Stage(s, [sess[s] EXCEPT !.pc = "audit"])
       ELSE Return(s, "update_product", "ok")
    /\ UNCHANGED <<users, consumptions, money_moves, audit, clock, nreq>>

\* -------------------------------------------------------------- update_user
\* admin_actor, then the lookup of the user
UpdateUserCheck(admin_id, pin_ok, user_id) ==
    IF ~UserExists(admin_id) THEN "404 Actor not found"
    ELSE IF users[admin_id].role # "admin" THEN "403 Actor is not an admin"
    ELSE IF ~pin_ok THEN "403 Invalid admin PIN"
    ELSE IF ~UserExists(user_id) THEN "404 User not found"
    ELSE "ok"

\* field is the one attribute the UserUpdate body sets
UpdateUserBegin(s, admin_id, pin_ok, user_id, field, role, is_active) ==
    /\ Free(s)
    /\ LET r == UpdateUserCheck(admin_id, pin_ok, user_id) IN
       IF r = "ok"
       THEN Admit(s, [Idle EXCEPT !.pc = "commit", !.op = "update_user",
                                  !.actor = admin_id, !.id = user_id, !.type = field,
                                  !.role = IF field = "role" THEN role ELSE "",
                                  !.flag = IF field = "is_active" THEN is_active ELSE FALSE])
       ELSE Refuse(s, "update_user", r)
    /\ UNCHANGED <<db, clock>>

\* setattr(user, field, value); db.commit(): UPDATE users ... WHERE id = :id
UpdateUserCommit(s) ==
    /\ Ready(s, "commit")
    /\ sess[s].op = "update_user"
    /\ IF UserExists(sess[s].id)
       THEN /\ users' = [users EXCEPT ![sess[s].id] =
                             IF sess[s].type = "role"
                             THEN [@ EXCEPT !.role = sess[s].role]
                             ELSE [@ EXCEPT !.is_active = sess[s].flag]]
            /\ Stage(s, [sess[s] EXCEPT !.pc = "audit"])
       ELSE /\ users' = users
            /\ Return(s, "update_user", "500 StaleDataError")
    /\ UNCHANGED <<products, consumptions, money_moves, audit, clock, nreq>>

\* -------------------------------------------------------------- delete_user
remaining_admins_counting_deleted(user_id) ==
    Cardinality({a \in Users : /\ users[a].exists /\ users[a].role = "admin" /\ a # user_id
                               /\ users[a].is_active})

remaining_admins(user_id) ==
    Cardinality({a \in Users : /\ users[a].exists /\ users[a].role = "admin" /\ a # user_id
                               /\ users[a].is_active /\ ~users[a].is_deleted})

HasRow(table, field, user_id) == \E i \in DOMAIN table : table[i][field] = user_id

has_related_records(user_id) ==
    \/ HasRow(consumptions, "user_id", user_id)
    \/ HasRow(consumptions, "created_by", user_id)
    \/ HasRow(money_moves, "user_id", user_id)
    \/ HasRow(money_moves, "created_by", user_id)
    \/ HasRow(money_moves, "confirmed_by", user_id)
    \/ HasRow(audit, "actor_id", user_id)

\* admin_actor, then the handler's checks up to the choice of soft or hard delete
DeleteUserCheck(admin_id, pin_ok, user_id, force) ==
    IF ~UserExists(admin_id) THEN "404 Actor not found"
    ELSE IF users[admin_id].role # "admin" THEN "403 Actor is not an admin"
    ELSE IF ~pin_ok THEN "403 Invalid admin PIN"
    ELSE IF ~UserExists(user_id) THEN "404 User not found"
    ELSE IF users[user_id].role = "admin" /\ remaining_admins(user_id) = 0
         THEN "400 Cannot delete the last remaining admin user"
    ELSE IF has_related_records(user_id) /\ ~force THEN "409 user_has_related_records"
    ELSE IF has_related_records(user_id) /\ force THEN "soft_delete"
    ELSE "hard_delete"

DeleteUserBegin(s, admin_id, pin_ok, user_id, force) ==
    /\ Free(s)
    /\ LET r == DeleteUserCheck(admin_id, pin_ok, user_id, force) IN
       IF r \in {"soft_delete", "hard_delete"}
       THEN Admit(s, [Idle EXCEPT !.pc = "commit", !.op = "delete_user", !.type = r,
                                  !.actor = admin_id, !.id = user_id])
       ELSE Refuse(s, "delete_user", r)
    /\ UNCHANGED <<db, clock>>

\* user.is_deleted = True; db.commit(): UPDATE users ... WHERE id = :id
SoftDeleteCommit(s) ==
    /\ Ready(s, "commit")
    /\ sess[s].op = "delete_user"
    /\ sess[s].type = "soft_delete"
    /\ IF UserExists(sess[s].id)
       THEN /\ users' = [users EXCEPT ![sess[s].id].is_deleted = TRUE]
            /\ Stage(s, [sess[s] EXCEPT !.pc = "audit"])
       ELSE /\ users' = users
            /\ Return(s, "delete_user", "500 StaleDataError")
    /\ UNCHANGED <<products, consumptions, money_moves, audit, clock, nreq>>

\* db.delete(user); db.commit().  None of User's relationships cascades or sets
\* passive_deletes, so the flush first loads the rows that reference the user
\* and sets their foreign key to NULL, then deletes the user row.
RECURSIVE Orphan(_, _, _)
OrphanKeep(table, field, user_id) == table

Orphan(table, field, user_id) ==
    IF table = <<>> THEN <<>>
    ELSE LET n == Len(table)
             r == table[n]
         IN  Append(Orphan(SubSeq(table, 1, n - 1), field, user_id),
                    IF r[field] = user_id THEN [r EXCEPT ![field] = Null] ELSE r)

OrphanConsumptions(user_id) ==
    Orphan(Orphan(consumptions, "user_id", user_id), "created_by", user_id)

OrphanMoneyMoves(user_id) ==
    Orphan(Orphan(Orphan(money_moves, "user_id", user_id), "created_by", user_id),
           "confirmed_by", user_id)

OrphanAudit(user_id) == Orphan(audit, "actor_id", user_id)

\* nullable=False columns: the UPDATE that sets one of them to NULL aborts the flush
NotNullAuditActorNullable(cons, moves, log) ==
    /\ \A i \in DOMAIN cons : cons[i].user_id # Null /\ cons[i].created_by # Null
    /\ \A i \in DOMAIN moves : moves[i].user_id # Null /\ moves[i].created_by # Null

NotNullConsumptionNullable(cons, moves, log) ==
    /\ \A i \in DOMAIN moves : moves[i].user_id # Null /\ moves[i].created_by # Null
    /\ \A i \in DOMAIN log : log[i].actor_id # Null

NotNull(cons, moves, log) ==
    /\ \A i \in DOMAIN cons : cons[i].user_id # Null /\ cons[i].created_by # Null
    /\ \A i \in DOMAIN moves : moves[i].user_id # Null /\ moves[i].created_by # Null
    /\ \A i \in DOMAIN log : log[i].actor_id # Null

HardDeleteCommit(s) ==
    /\ Ready(s, "commit")
    /\ sess[s].op = "delete_user"
    /\ sess[s].type = "hard_delete"
    /\ LET u == sess[s].id IN
       IF ~UserExists(u)
       THEN /\ UNCHANGED <<users, consumptions, money_moves, audit>>
            /\ Return(s, "delete_user", "500 StaleDataError")
       ELSE IF ~NotNull(OrphanConsumptions(u), OrphanMoneyMoves(u), OrphanAudit(u))
       THEN /\ UNCHANGED <<users, consumptions, money_moves, audit>>
            /\ Return(s, "delete_user", "500 IntegrityError")
       ELSE /\ users' = [users EXCEPT ![u] = NoUser]
            /\ consumptions' = OrphanConsumptions(u)
            /\ money_moves' = OrphanMoneyMoves(u)
            /\ audit' = OrphanAudit(u)
            /\ Stage(s, [sess[s] EXCEPT !.pc = "audit"])
    /\ UNCHANGED <<products, clock, nreq>>

\* --------------------------------------------------------------- audit log
log_action(log, actor_id, action, entity, entity_id) ==
    Append(log, Audit(actor_id, action, entity, entity_id, clock))

AuditActionOfAlwaysConfirm(op) ==
    CASE op = "create_money_move" -> "create"
      [] op = "confirm_money_move" -> "confirm"
      [] op = "reject_money_move" -> "confirm"
      [] op = "create_consumption" -> "create"
      [] op \in {"update_product", "update_user"} -> "update"
      [] OTHER -> "delete"

AuditActionOf(op) ==
    CASE op = "create_money_move" -> "create"
      [] op = "confirm_money_move" -> "confirm"
      [] op = "reject_money_move" -> "reject"
      [] op = "create_consumption" -> "create"
      [] op \in {"update_product", "update_user"} -> "update"
      [] OTHER -> "delete"

AuditEntityOf(op) ==
    CASE op \in {"create_money_move", "confirm_money_move", "reject_money_move"} -> "money_move"
      [] op = "create_consumption" -> "consumption"
      [] op = "update_product" -> "product"
      [] OTHER -> "user"

\* GET /audit: the rows that pass the filter, ORDER BY at DESC.  The statement
\* names no second sort key, so rows with equal at come back in an order the
\* database chooses: the query has one possible result per such order.  A
\* result is the sequence of the positions of its rows in the table; an entity
\* filter of "" is an absent filter.
AuditMatches(entity) == {i \in DOMAIN audit : entity = "" \/ audit[i].entity = entity}

OrderedByAtDesc(result) ==
    \A i \in DOMAIN result, j \in DOMAIN result :
        i < j => audit[result[i]].at >= audit[result[j]].at

get_audit_entries(entity) ==
    LET rows == AuditMatches(entity) IN
    {result \in [1..Cardinality(rows) -> rows] :
        /\ \A i \in DOMAIN result, j \in DOMAIN result : i # j => result[i] # result[j]
        /\ OrderedByAtDesc(result)}

\* The handler's closing AuditService.log_* call: INSERT INTO audit + commit,
\* checked against the foreign key audit.actor_id -> users.id.
LogAction(s) ==
    /\ Ready(s, "audit")
    /\ IF UserExists(sess[s].actor)
       THEN /\ audit' = log_action(audit, sess[s].actor, AuditActionOf(sess[s].op),
                                   AuditEntityOf(sess[s].op), sess[s].id)
            /\ Return(s, sess[s].op, "ok")
       ELSE /\ audit' = audit
            /\ Return(s, sess[s].op, "500 IntegrityError")
    /\ UNCHANGED <<users, products, consumptions, money_moves, clock, nreq>>

\* The audit commit raises (storage failure) or the worker dies before it:
\* nothing undoes the commit the handler made before.
LogActionFails(s) ==
    /\ Ready(s, "audit")
    /\ Return(s, sess[s].op, "500 audit write failed")
    /\ UNCHANGED <<db, clock, nreq>>

\* GET /users/{user_id}/balance.  The handler looks the user up and
\* get_user_balance issues its two SELECTs one after the other; under the
\* engine's default isolation level (READ COMMITTED) each statement reads the
\* store as committed when it runs.  The first step is the lookup and the
\* consumption total, the second the money-move total and the return.
GetUserBalanceBegin(s, user_id) ==
    /\ Free(s)
    /\ IF UserExists(user_id)
       THEN Stage(s, [Idle EXCEPT !.pc = "reading", !.op = "get_user_balance",
                                  !.user_id = user_id,
                                  !.amount = consumption_total(consumptions, user_id,
                                                               Len(consumptions)),
                                  !.seen = {get_user_balance(user_id)}])
       ELSE sess' = sess /\ resp' = [op |-> "get_user_balance", result |-> "404 User not found",
                                     refused |-> TRUE, balance_cents |-> 0]
    /\ UNCHANGED <<db, clock, nreq>>

GetUserBalanceReturn(s) ==
    /\ sess[s].pc = "reading" /\ ~resp.refused
    /\ sess' = [sess EXCEPT ![s] =
                   [pc |-> "idle", op |-> "", actor |-> Null, id |-> Null, user_id |-> Null,
                    type |-> "", amount |-> 0, qty |-> 0, price |-> 0, flag |-> FALSE,
                    role |-> "", seen |-> {}]]
    /\ resp' = [op |-> "get_user_balance", result |-> "200", refused |-> FALSE,
                balance_cents |-> money_move_total(money_moves, sess[s].user_id,
                                                   Len(money_moves)) - sess[s].amount]
    /\ UNCHANGED <<db, clock, nreq>>

\* -------------------------------------------------------------------- next
MoneyMoveSteps ==
    \/ \E s \in Sessions, t \in MoneyMoveType, u \in Users, a \in Amounts, c \in Users :
          CreateMoneyMoveBegin(s, t, u, a, c)
    \/ \E s \in Sessions : CreateMoneyMoveCommit(s)
    \/ \E s \in Sessions, m \in MoveIds, c \in Users : ConfirmMoneyMoveBegin(s, m, c)
    \/ \E s \in Sessions : ConfirmMoneyMoveCommit(s)
    \/ \E s \in Sessions, m \in MoveIds, c \in Users : RejectMoneyMoveBegin(s, m, c)
    \/ \E s \in Sessions : RejectMoneyMoveCommit(s)

ConsumptionSteps ==
    \/ \E s \in Sessions, a \in Users, pin_ok \in BOOLEAN, u \in Users, p \in ProductIds, q \in Qtys :
          CreateConsumptionBegin(s, a, pin_ok, u, p, q)
    \/ \E s \in Sessions : CreateConsumptionCommit(s)

UserSteps ==
    \/ \E s \in Sessions, a \in Users, pin_ok \in BOOLEAN, u \in Users, f \in BOOLEAN :
          DeleteUserBegin(s, a, pin_ok, u, f)
    \/ \E s \in Sessions : SoftDeleteCommit(s)
    \/ \E s \in Sessions : HardDeleteCommit(s)

AuditSteps ==
    \/ \E s \in Sessions : LogAction(s)
    \/ \E s \in Sessions : LogActionFails(s)

\* the money-move state machine and its audit trail
NextMoney == MoneyMoveSteps \/ AuditSteps

SpecMoney == Init /\ [][NextMoney]_vars

\* concurrent Confirm attempts only: the state machine without Reject
NextConfirm ==
    \/ \E s \in Sessions, t \in MoneyMoveType, u \in Users, a \in Amounts, c \in Users :
          CreateMoneyMoveBegin(s, t, u, a, c)
    \/ \E s \in Sessions : CreateMoneyMoveCommit(s)
    \/ \E s \in Sessions, m \in MoveIds, c \in Users : ConfirmMoneyMoveBegin(s, m, c)
    \/ \E s \in Sessions : ConfirmMoneyMoveCommit(s)
    \/ AuditSteps

SpecConfirm == Init /\ [][NextConfirm]_vars

\* the ledger: money moves and consumptions
NextLedger == MoneyMoveSteps \/ ConsumptionSteps \/ AuditSteps

SpecLedger == Init /\ [][NextLedger]_vars

\* the catalogue and the consumptions booked against it
NextCatalog ==
    \/ \E s \in Sessions, a \in Users, u \in Users, p \in ProductIds, q \in Qtys :
          CreateConsumptionBegin(s, a, TRUE, u, p, q)
    \/ \E s \in Sessions : CreateConsumptionCommit(s)
    \/ \E s \in Sessions, p \in ProductIds, f \in {"price_cents", "is_active"},
          c \in Prices, b \in BOOLEAN, a \in {1, Null} :
          UpdateProductBegin(s, p, f, c, b, a)
    \/ \E s \in Sessions : UpdateProductCommit(s)
    \/ AuditSteps

SpecCatalog == Init /\ [][NextCatalog]_vars

\* money-move requests with every amount the schema accepts
NextAmounts ==
    \/ \E s \in Sessions, t \in MoneyMoveType, u \in Users, a \in AmountInputs, c \in Users :
          CreateMoneyMoveBegin(s, t, u, a, c)
    \/ \E s \in Sessions : CreateMoneyMoveCommit(s)
    \/ \E s \in Sessions, m \in MoveIds, c \in Users : ConfirmMoneyMoveBegin(s, m, c)
    \/ \E s \in Sessions : ConfirmMoneyMoveCommit(s)
    \/ AuditSteps

SpecAmounts == Init /\ [][NextAmounts]_vars

\* money-move creation against a changing user directory
NextAccounts ==
    \/ \E s \in Sessions, u \in Users, c \in Users :
          CreateMoneyMoveBegin(s, "deposit", u, MaxAmount, c)
    \/ \E s \in Sessions : CreateMoneyMoveCommit(s)
    \/ \E s \in Sessions, u \in Users, b \in BOOLEAN :
          UpdateUserBegin(s, 1, TRUE, u, "is_active", "", b)
    \/ \E s \in Sessions : UpdateUserCommit(s)
    \/ \E s \in Sessions, u \in Users, f \in BOOLEAN : DeleteUserBegin(s, 1, TRUE, u, f)
    \/ \E s \in Sessions : SoftDeleteCommit(s)
    \/ \E s \in Sessions : HardDeleteCommit(s)
    \/ AuditSteps

SpecAccounts == Init /\ [][NextAccounts]_vars

\* the user directory: promotions to admin, deactivations, deletions
NextDirectory ==
    \/ \E s \in Sessions, a \in Users, u \in Users, f \in {"role", "is_active"} :
          UpdateUserBegin(s, a, TRUE, u, f, "admin", FALSE)
    \/ \E s \in Sessions : UpdateUserCommit(s)
    \/ UserSteps
    \/ AuditSteps

SpecDirectory == Init /\ [][NextDirectory]_vars

\* concurrent deletions among admins: promotions to admin and delete_user only
NextDeletes ==
    \/ \E s \in Sessions, a \in Users, u \in Users :
          UpdateUserBegin(s, a, TRUE, u, "role", "admin", FALSE)
    \/ \E s \in Sessions : UpdateUserCommit(s)
    \/ UserSteps
    \/ AuditSteps

SpecDeletes == Init /\ [][NextDeletes]_vars

\* consumption requests with every actor, PIN outcome, beneficiary, product
\* id and quantity the schema accepts, while the admin deactivates the product,
\* deactivates users and deletes users
NextBooking ==
    \/ \E s \in Sessions, a \in Users, pin_ok \in BOOLEAN, u \in Users, p \in ProductIds,
          q \in QtyInputs :
          CreateConsumptionBegin(s, a, pin_ok, u, p, q)
    \/ \E s \in Sessions : CreateConsumptionCommit(s)
    \/ \E s \in Sessions : UpdateProductBegin(s, 1, "is_active", 0, FALSE, 1)
    \/ \E s \in Sessions : UpdateProductCommit(s)
    \/ \E s \in Sessions, u \in Users : UpdateUserBegin(s, 1, TRUE, u, "is_active", "", FALSE)
    \/ \E s \in Sessions : UpdateUserCommit(s)
    \/ \E s \in Sessions, u \in Users, f \in BOOLEAN : DeleteUserBegin(s, 1, TRUE, u, f)
    \/ \E s \in Sessions : SoftDeleteCommit(s)
    \/ \E s \in Sessions : HardDeleteCommit(s)
    \/ AuditSteps

SpecBooking == Init /\ [][NextBooking]_vars

\* balance reads against a ledger that is being written
NextBalance ==
    \/ \E s \in Sessions, t \in MoneyMoveType, u \in Users :
          CreateMoneyMoveBegin(s, t, u, MaxAmount, 2)
    \/ \E s \in Sessions : CreateMoneyMoveCommit(s)
    \/ \E s \in Sessions, m \in MoveIds, c \in Users : ConfirmMoneyMoveBegin(s, m, c)
    \/ \E s \in Sessions : ConfirmMoneyMoveCommit(s)
    \/ \E s \in Sessions, a \in Users : CreateConsumptionBegin(s, a, TRUE, a, 1, MaxQty)
    \/ \E s \in Sessions : CreateConsumptionCommit(s)
    \/ AuditSteps
    \/ \E s \in Sessions, u \in Users : GetUserBalanceBegin(s, u)
    \/ \E s \in Sessions : GetUserBalanceReturn(s)

SpecBalance == Init /\ [][NextBalance]_vars

\* Every handler of the model.  What the directory and the audit log read of a
\* request is its actor and its target, so the other inputs are fixed here: a
\* money move is a deposit of MaxAmount requested for the creator, a consumption
\* is booked by the consumer for MaxQty units of product 1, a product update
\* raises the price to MaxPrice or deactivates the product and is made by the
\* admin or anonymously, a user update is the admin deactivating a user.
Next ==
    \/ \E s \in Sessions, c \in Users : CreateMoneyMoveBegin(s, "deposit", c, MaxAmount, c)
    \/ \E s \in Sessions : CreateMoneyMoveCommit(s)
    \/ \E s \in Sessions, m \in MoveIds, c \in Users : ConfirmMoneyMoveBegin(s, m, c)
    \/ \E s \in Sessions : ConfirmMoneyMoveCommit(s)
    \/ \E s \in Sessions, m \in MoveIds, c \in Users : RejectMoneyMoveBegin(s, m, c)
    \/ \E s \in Sessions : RejectMoneyMoveCommit(s)
    \/ \E s \in Sessions, a \in Users : CreateConsumptionBegin(s, a, TRUE, a, 1, MaxQty)
    \/ \E s \in Sessions : CreateConsumptionCommit(s)
    \/ \E s \in Sessions, f \in {"price_cents", "is_active"}, a \in {1, Null} :
          UpdateProductBegin(s, 1, f, MaxPrice, FALSE, a)
    \/ \E s \in Sessions : UpdateProductCommit(s)
    \/ \E s \in Sessions, u \in Users : UpdateUserBegin(s, 1, TRUE, u, "is_active", "", FALSE)
    \/ \E s \in Sessions : UpdateUserCommit(s)
    \/ UserSteps
    \/ AuditSteps

Spec == Init /\ [][Next]_vars

\* ================================================================== claims
RECURSIVE SumAmounts(_, _)
SumAmounts(table, I) ==
    IF I = {} THEN 0
    ELSE LET i == CHOOSE j \in I : TRUE
         IN  table[i].amount_cents + SumAmounts(table, I \ {i})

MovesOf(u, type, status) ==
    {i \in DOMAIN money_moves : /\ money_moves[i].user_id = u
                                /\ money_moves[i].type = type
                                /\ money_moves[i].status = status}

ConsumptionsOf(u) == {i \in DOMAIN consumptions : consumptions[i].user_id = u}

Balances == [u \in Users |-> get_user_balance(u)]

\* C1: in every state reached by consumption creations and money-move
\* Create/Confirm/Reject, the balance of every user is the sum of the user's
\* confirmed deposits minus the sum of the confirmed payouts minus the sum of
\* the consumptions; it is 0 for a user without records; pending and rejected
\* moves contribute nothing.
C1_BalanceFormula ==
    \A u \in Users :
        /\ get_user_balance(u) =
              SumAmounts(money_moves, MovesOf(u, "deposit", "confirmed"))
            - SumAmounts(money_moves, MovesOf(u, "payout", "confirmed"))
            - SumAmounts(consumptions, ConsumptionsOf(u))
        /\ (/\ ConsumptionsOf(u) = {}
            /\ \A i \in DOMAIN money_moves :
                  money_moves[i].user_id = u => money_moves[i].status # "confirmed")
           => get_user_balance(u) = 0

C1_Witness ==
    \E u \in Users :
        /\ MovesOf(u, "payout", "confirmed") # {}
        /\ ConsumptionsOf(u) # {}
        /\ get_user_balance(u) < 0

\* C2: every confirmed money move has confirmed_by different from created_by.
C2_DualControl ==
    \A i \in DOMAIN money_moves :
        money_moves[i].status = "confirmed" =>
            money_moves[i].confirmed_by # money_moves[i].created_by

C2_Witness ==
    \E i \in DOMAIN money_moves :
        /\ money_moves[i].status = "confirmed"
        /\ money_moves[i].confirmed_by \in Users

\* C3: a Confirm whose confirmer is the move's creator is refused and changes
\* neither the money move nor any balance.
C3_SelfConfirmRefused ==
    [][\A s \in Sessions, m \in DOMAIN money_moves :
          ConfirmMoneyMoveBegin(s, m, money_moves[m].created_by) =>
              /\ resp'.refused
              /\ money_moves' = money_moves
              /\ Balances' = Balances]_vars

C3_Witness ==
    /\ resp = Response("confirm_money_move", "400 Cannot confirm own money move", TRUE)
    /\ \E m \in DOMAIN money_moves :
          /\ money_moves[m].status = "pending"
          /\ money_moves[m].confirmed_at = Null
          /\ money_moves[m].confirmed_by = Null

\* C4: a Confirm or Reject that finds the move already confirmed or rejected is
\* refused as not pending and changes no money move, no audit entry and no
\* balance.
C4_NotPendingRefused ==
    [][\A s \in Sessions, m \in DOMAIN money_moves, c \in Users :
          (/\ money_moves[m].status # "pending"
           /\ ConfirmMoneyMoveBegin(s, m, c) \/ RejectMoneyMoveBegin(s, m, c)) =>
              /\ resp'.refused
              /\ resp'.result = "400 Money move is not pending"
              /\ money_moves' = money_moves
              /\ audit' = audit
              /\ Balances' = Balances]_vars

C4_Witness ==
    /\ resp = Response("confirm_money_move", "400 Money move is not pending", TRUE)
    /\ \E m \in DOMAIN money_moves : money_moves[m].status = "confirmed"

\* Successful resolutions of a move: each Confirm or Reject that returned
\* success logged one confirm or reject entry for the move.
Successes(m, actions) ==
    Cardinality({i \in DOMAIN audit : /\ audit[i].entity = "money_move"
                                      /\ audit[i].entity_id = m
                                      /\ audit[i].action \in actions})

IsResolution(e) == e.entity = "money_move" /\ e.action \in {"confirm", "reject"}

\* C5: no money move has two successful resolutions by different actors or of
\* different kinds (Confirm and Reject): of two such attempts only one returns
\* success.
C5_SingleWinner ==
    \A i, j \in DOMAIN audit :
        (/\ i < j
         /\ IsResolution(audit[i]) /\ IsResolution(audit[j])
         /\ InitialRole(audit[i].actor_id) # "user" /\ InitialRole(audit[j].actor_id) # "user"
         /\ audit[i].entity_id = audit[j].entity_id)
        => audit[i].actor_id = audit[j].actor_id /\ audit[i].action = audit[j].action

\* C6: a confirmed or rejected money move never changes again.
C6_TerminalImmutable ==
    [][\A m \in DOMAIN money_moves :
          money_moves[m].status # "pending" =>
              /\ money_moves'[m].status = money_moves[m].status
              /\ money_moves'[m].confirmed_by = money_moves[m].confirmed_by
              /\ money_moves'[m].confirmed_at = money_moves[m].confirmed_at]_vars

Without(table, m) == SubSeq(table, 1, m - 1) \o SubSeq(table, m + 1, Len(table))

Contribution(m) ==
    get_user_balance_of(money_moves, consumptions, money_moves[m].user_id)
  - get_user_balance_of(Without(money_moves, m), consumptions, money_moves[m].user_id)

\* C7: with concurrent Confirm attempts on a money move, once a Confirm has
\* returned success the beneficiary's balance holds the amount of the move
\* exactly once: +amount_cents for a deposit, -amount_cents for a payout.
C7_AppliedOnce ==
    \A m \in DOMAIN money_moves :
        Successes(m, {"confirm"}) >= 1 =>
            Contribution(m) = IF money_moves[m].type = "deposit"
                              THEN money_moves[m].amount_cents
                              ELSE 0 - money_moves[m].amount_cents

C7_Witness ==
    \E m \in DOMAIN money_moves :
        /\ Successes(m, {"confirm"}) = 2
        /\ money_moves[m].type = "payout"
        /\ \A s \in Sessions : sess[s].pc = "idle"

AuditPending(ops, m) ==
    \E s \in Sessions : sess[s].pc = "audit" /\ sess[s].op \in ops /\ sess[s].id = m

\* C8: a committed money-move Create, Confirm or Reject whose handler is no
\* longer about to write the audit entry has its audit entry.
C8_MutationAudited ==
    \A m \in DOMAIN money_moves :
        /\ ~AuditPending({"create_money_move"}, m) => Successes(m, {"create"}) >= 1
        /\ (/\ money_moves[m].status # "pending"
            /\ ~AuditPending({"confirm_money_move", "reject_money_move"}, m))
           => Successes(m, {"confirm", "reject"}) >= 1

ExpectedAction(op) ==
    IF op = "confirm_money_move" THEN "confirm"
    ELSE IF op = "reject_money_move" THEN "reject"
    ELSE "create"

ExpectedEntity(op) == IF op = "create_consumption" THEN "consumption" ELSE "money_move"

Affected(op, id, actor) ==
    IF op = "create_consumption"
    THEN id \in DOMAIN consumptions /\ consumptions[id].created_by = actor
    ELSE IF op = "create_money_move"
    THEN id \in DOMAIN money_moves /\ money_moves[id].created_by = actor
    ELSE id \in DOMAIN money_moves

\* C9: a ledger operation that returns success appends exactly one audit entry,
\* with the acting user as actor_id, the id of the affected record as entity_id
\* and the entity and action of the operation; every other step, a failing
\* operation included, appends nothing.
C9_OneEntryPerSuccess ==
    [][IF resp'.result = "ok"
       THEN \E s \in Sessions :
               /\ sess[s].pc = "audit"
               /\ sess'[s].pc = "idle"
               /\ resp'.op = sess[s].op
               /\ Affected(sess[s].op, sess[s].id, sess[s].actor)
               /\ audit' = Append(audit, Audit(sess[s].actor, ExpectedAction(sess[s].op),
                                               ExpectedEntity(sess[s].op), sess[s].id, clock))
       ELSE audit' = audit]_vars

C9_Witness ==
    /\ resp = Response("reject_money_move", "ok", FALSE)
    /\ audit[Len(audit)].action = "reject"
    /\ audit[Len(audit)].entity = "money_move"

\* C10: the audit log only grows: every step keeps all existing entries
\* unchanged and in place.
C10_AppendOnly ==
    [][/\ Len(audit') >= Len(audit)
       /\ SubSeq(audit', 1, Len(audit)) = audit]_vars

C10_Witness ==
    \E u \in Users :
        /\ ~users[u].exists
        /\ \E i \in DOMAIN audit :
              audit[i].action = "delete" /\ audit[i].entity = "user" /\ audit[i].entity_id = u
        /\ \E i \in DOMAIN audit : audit[i].entity = "product"

\* C11: a consumption is stored with the unit price the product had when the
\* handler read it and with amount_cents = qty * that unit price, for the
\* product and the quantity of the request.
C11_PriceSnapshot ==
    [][/\ \A s \in Sessions, a \in Users, u \in Users, p \in ProductIds, q \in Qtys :
             (Free(s) /\ CreateConsumptionBegin(s, a, TRUE, u, p, q) /\ ~resp'.refused) =>
                 /\ sess'[s].id = p
                 /\ sess'[s].qty = q
                 /\ sess'[s].price = products[p].price_cents
       /\ consumptions' # consumptions =>
             \E s \in Sessions :
                 /\ sess[s].pc = "commit" /\ sess[s].op = "create_consumption"
                 /\ sess'[s].pc = "audit"
                 /\ Len(consumptions') = Len(consumptions) + 1
                 /\ LET c == consumptions'[Len(consumptions')] IN
                        /\ c.product_id = sess[s].id
                        /\ c.qty = sess[s].qty
                        /\ c.unit_price_cents = sess[s].price
                        /\ c.amount_cents = c.qty * c.unit_price_cents]_vars

C11_Witness ==
    \E i \in DOMAIN consumptions :
        /\ consumptions[i].qty = MaxQty
        /\ consumptions[i].unit_price_cents = MaxPrice
        /\ consumptions[i].amount_cents = MaxQty * MaxPrice
        /\ products[consumptions[i].product_id].price_cents # MaxPrice

\* C12: no step changes or removes an existing consumption; the table only
\* grows at its end.
C12_ConsumptionsImmutable ==
    [][/\ Len(consumptions') >= Len(consumptions)
       /\ SubSeq(consumptions', 1, Len(consumptions)) = consumptions]_vars

C12_Witness ==
    /\ \E i \in DOMAIN consumptions :
           consumptions[i].unit_price_cents # products[consumptions[i].product_id].price_cents
    /\ \E u \in Users : ~users[u].exists

Signed(mm) == IF mm.type = "deposit" THEN mm.amount_cents ELSE 0 - mm.amount_cents

\* C13: a step that adds a money move, and a step that takes a pending money
\* move to rejected, leave every user's balance unchanged; a step that takes a
\* pending money move to confirmed adds +amount_cents (deposit) or -amount_cents
\* (payout) to the beneficiary's balance and changes no other balance.
C13_BalanceFrame ==
    [][\A m \in DOMAIN money_moves' :
          /\ m \notin DOMAIN money_moves => Balances' = Balances
          /\ (/\ m \in DOMAIN money_moves
              /\ money_moves[m].status = "pending"
              /\ money_moves'[m].status = "rejected") => Balances' = Balances
          /\ (/\ m \in DOMAIN money_moves
              /\ money_moves[m].status = "pending"
              /\ money_moves'[m].status = "confirmed") =>
                 Balances' = [u \in Users |->
                                 IF u = money_moves[m].user_id
                                 THEN Balances[u] + Signed(money_moves[m])
                                 ELSE Balances[u]]]_vars

C13_Witness ==
    \E m \in DOMAIN money_moves :
        /\ money_moves[m].status = "confirmed"
        /\ money_moves[m].type = "payout"
        /\ consumptions # <<>>
        /\ Balances[money_moves[m].user_id] < 0 - money_moves[m].amount_cents

Stamped(mm) == (mm.confirmed_at = Null /\ mm.confirmed_by = Null) <=> mm.status = "pending"

\* C14: every money move has confirmed_at and confirmed_by both null exactly
\* when it is pending: a new move is pending with both fields null, the commit
\* of a Confirm writes status confirmed and confirmed_by = the confirmer, the
\* commit of a Reject writes status rejected and confirmed_by = the rejector.
C14_ResolutionStamp ==
    [][/\ \A m \in DOMAIN money_moves' :
             /\ Stamped(money_moves'[m])
             /\ m \notin DOMAIN money_moves =>
                    /\ money_moves'[m].status = "pending"
                    /\ money_moves'[m].confirmed_at = Null
                    /\ money_moves'[m].confirmed_by = Null
       /\ \A s \in Sessions :
             (sess[s].pc = "commit" /\ sess'[s].pc = "audit") =>
                 /\ sess[s].op = "confirm_money_move" =>
                        /\ money_moves'[sess[s].id].status = "confirmed"
                        /\ money_moves'[sess[s].id].confirmed_by = sess[s].actor
                        /\ money_moves'[sess[s].id].confirmed_at # Null
                 /\ sess[s].op = "reject_money_move" =>
                        /\ money_moves'[sess[s].id].status = "rejected"
                        /\ money_moves'[sess[s].id].confirmed_by = sess[s].actor
                        /\ money_moves'[sess[s].id].confirmed_at # Null]_vars

C14_Witness ==
    \E m \in DOMAIN money_moves :
        /\ money_moves[m].status = "rejected"
        /\ money_moves[m].confirmed_by = money_moves[m].created_by
        /\ money_moves[m].confirmed_at # Null

\* C15: a money-move Create by an existing creator for an existing beneficiary
\* is accepted exactly when the creator is a treasurer or an admin or is the
\* beneficiary.
C15_CreateAuthorization ==
    [][\A s \in Sessions, t \in MoneyMoveType, u \in Users, a \in Amounts, c \in Users :
          (CreateMoneyMoveBegin(s, t, u, a, c) /\ UserExists(u) /\ UserExists(c)) =>
              (~resp'.refused <=> (users[c].role \in {"treasurer", "admin"} \/ c = u))]_vars

\* C16: the user recorded in confirmed_by of a resolved money move is a
\* treasurer or an admin.
C16_ResolverAuthorized ==
    \A m \in DOMAIN money_moves :
        (money_moves[m].status # "pending" /\ UserExists(money_moves[m].confirmed_by)) =>
            users[money_moves[m].confirmed_by].role \in {"treasurer", "admin"}

\* C17: every stored money move has amount_cents > 0.
C17_PositiveAmounts ==
    \A m \in DOMAIN money_moves : money_moves[m].amount_cents > 0

\* C18: a money-move Create whose beneficiary does not exist or is not active
\* is refused and adds neither a money move nor an audit entry.
C18_BeneficiaryChecked ==
    [][\A s \in Sessions, u \in Users, c \in Users :
          (/\ CreateMoneyMoveBegin(s, "deposit", u, MaxAmount, c)
           /\ (~UserExists(u) \/ ~users[u].is_active)) =>
              /\ resp'.refused
              /\ money_moves' = money_moves
              /\ audit' = audit]_vars

\* C19: a step removes a user row only if the user has no dependent record
\* (consumption as user or creator, money move as beneficiary, creator or
\* confirmer, audit entry as actor); a delete request for a user with dependent
\* records is refused with 409 without force and is a soft delete with force;
\* the soft delete changes nothing of the user but the is_deleted flag.
C19_DeletePolicy ==
    [][/\ \A u \in Users :
             (users[u].exists /\ ~users'[u].exists) => ~has_related_records(u)
       /\ \A s \in Sessions, a \in Users, u \in Users, f \in BOOLEAN :
             (/\ Free(s)
              /\ DeleteUserCheck(a, TRUE, u, f) \in
                     {"409 user_has_related_records", "soft_delete", "hard_delete"}
              /\ DeleteUserBegin(s, a, TRUE, u, f)) =>
                 IF ~has_related_records(u)
                 THEN sess'[s].type = "hard_delete"
                 ELSE IF f THEN sess'[s].type = "soft_delete"
                 ELSE resp' = Response("delete_user", "409 user_has_related_records", TRUE)
                      /\ users' = users
       /\ \A s \in Sessions :
             (/\ sess[s].pc = "commit" /\ sess[s].op = "delete_user"
              /\ sess[s].type = "soft_delete" /\ sess'[s] # sess[s]) =>
                 \A u \in Users :
                     users'[u] = users[u] \/ users'[u] = [users[u] EXCEPT !.is_deleted = TRUE]]_vars

OtherAdmins(u) ==
    {a \in Users \ {u} : /\ users[a].exists /\ users[a].role = "admin"
                          /\ users[a].is_active /\ ~users[a].is_deleted}

\* C20: a delete request by an authenticated admin for an existing admin user
\* is answered 400 "Cannot delete the last remaining admin user" and leaves the
\* users unchanged whenever no other active, non-deleted admin exists, with or
\* without dependent records and with or without force.
C20_LastAdminKept ==
    [][\A s \in Sessions, a \in Users, u \in Users, f \in BOOLEAN :
          (/\ Free(s)
           /\ UserExists(a) /\ users[a].role = "admin"
           /\ UserExists(u) /\ users[u].role = "admin"
           /\ OtherAdmins(u) = {}
           /\ DeleteUserBegin(s, a, TRUE, u, f)) =>
              /\ resp' = Response("delete_user", "400 Cannot delete the last remaining admin user", TRUE)
              /\ users' = users]_vars

C20_Witness ==
    /\ resp = Response("delete_user", "400 Cannot delete the last remaining admin user", TRUE)
    /\ \E u \in Users, a \in Users :
           /\ u # a
           /\ users[u].exists /\ users[u].role = "admin" /\ ~has_related_records(u)
           /\ users[a].exists /\ users[a].role = "admin" /\ users[a].is_deleted
           /\ OtherAdmins(u) = {}

Listed(list) == {list[i] : i \in DOMAIN list}

ActiveUsers == {u \in Users : users[u].exists /\ users[u].is_active /\ ~users[u].is_deleted}

\* C21: for every threshold t the below-threshold query lists, once each,
\* exactly the active, non-deleted users with balance < t and the
\* above-threshold query exactly those with balance >= t, each with the
\* balance get_user_balance gives; every active user is in exactly one list.
C21_ThresholdQueries ==
    \A t \in Thresholds :
        LET below == get_users_below_threshold(t)
            above == get_users_above_threshold(t)
        IN  /\ Listed(below) = {[user |-> u, balance_cents |-> get_user_balance(u)] :
                                    u \in {v \in ActiveUsers : get_user_balance(v) < t}}
            /\ Listed(above) = {[user |-> u, balance_cents |-> get_user_balance(u)] :
                                    u \in {v \in ActiveUsers : get_user_balance(v) >= t}}
            /\ Len(below) = Cardinality(Listed(below))
            /\ Len(above) = Cardinality(Listed(above))
            /\ \A u \in ActiveUsers :
                   (\E i \in DOMAIN below : below[i].user = u)
                       <=> ~(\E i \in DOMAIN above : above[i].user = u)

C21_Witness ==
    \E t \in Thresholds, u \in ActiveUsers, v \in ActiveUsers, w \in Users :
        /\ get_user_balance(u) = t /\ t # 0
        /\ \E i \in DOMAIN get_users_above_threshold(t) :
               get_users_above_threshold(t)[i].user = u
        /\ get_user_balance(v) < t
        /\ users[w].exists /\ ~(w \in ActiveUsers)

RECURSIVE NewestFirst(_)
NewestFirst(rows) ==
    IF rows = {} THEN <<>>
    ELSE LET last == CHOOSE i \in rows : \A j \in rows : j <= i
         IN  <<last>> \o NewestFirst(rows \ {last})

\* C22: the audit query has one possible result, the matching entries from the
\* last recorded to the first recorded: newest first, entries with equal
\* timestamps in reverse insertion order.
C22_AuditOrder ==
    \A entity \in {"", "money_move"} :
        \A result \in get_audit_entries(entity) : result = NewestFirst(AuditMatches(entity))

\* C23: the value a balance read returns is the balance of its user in one of
\* the committed states of the store between the call and the return.
C23_SingleSnapshot ==
    [][\A s \in Sessions :
          (sess[s].pc = "reading" /\ sess'[s].pc = "idle") =>
              resp'.balance_cents \in sess[s].seen \cup {get_user_balance(sess[s].user_id)}]_vars

\* C24: every consumption row has a quantity greater than zero.
C24_PositiveQty ==
    \A i \in DOMAIN consumptions : consumptions[i].qty > 0

\* the actor passed user_or_treasurer_actor
Authenticated(actor_id, pin_ok) ==
    UserExists(actor_id) /\ users[actor_id].is_active /\ pin_ok

MayBookFor(actor_id, user_id) ==
    users[actor_id].role = "treasurer" \/ actor_id = user_id

ProductAvailable(product_id) ==
    product_id \in DOMAIN products /\ products[product_id].is_active

\* a consumption request step: refused at once, or admitted into session s
ConsumptionRefused ==
    resp'.op = "create_consumption" /\ resp'.refused

ConsumptionAdmitted(s) ==
    sess[s].pc = "idle" /\ sess'[s].op = "create_consumption" /\ sess'[s].pc = "commit"

NothingWritten ==
    sess' = sess /\ consumptions' = consumptions /\ audit' = audit

\* C25: a consumption request whose beneficiary does not exist, or whose
\* product does not exist or is inactive, is refused and writes neither a
\* consumption nor an audit entry; for an authenticated actor the error is
\* 404 User not found when the beneficiary is missing, and 404 Product not
\* found or inactive when the actor may book for the beneficiary.
C25_NotFound ==
    /\ [](\A a \in Users, pin_ok \in BOOLEAN, u \in Users, p \in ProductIds :
            (~UserExists(u) \/ ~ProductAvailable(p))
            => LET r == CreateConsumptionCheck(a, pin_ok, u, p) IN
               /\ r # "ok"
               /\ (Authenticated(a, pin_ok) /\ ~UserExists(u)) => r = "404 User not found"
               /\ (Authenticated(a, pin_ok) /\ UserExists(u) /\ MayBookFor(a, u))
                     => r = "404 Product not found or inactive")
    /\ [][/\ ConsumptionRefused => NothingWritten
          /\ \A s \in Sessions :
               ConsumptionAdmitted(s)
               => /\ UserExists(sess'[s].user_id) /\ ProductAvailable(sess'[s].id)
                  /\ \E pin_ok \in BOOLEAN, q \in QtyInputs :
                        CreateConsumptionBegin(s, sess'[s].actor, pin_ok, sess'[s].user_id,
                                               sess'[s].id, q)]_vars

\* a request for the deactivated product was answered 404 after a user was
\* hard deleted, and no consumption exists
C25_Witness ==
    /\ resp = Response("create_consumption", "404 Product not found or inactive", TRUE)
    /\ ~products[1].is_active
    /\ \E u \in Users : ~UserExists(u)
    /\ consumptions = <<>>

\* C26: a consumption request is admitted only for an actor that exists, is
\* active, gave the right PIN and is a treasurer or the beneficiary; an
\* authenticated actor that is neither is refused 403 with nothing written;
\* the row a commit inserts carries the actor's id as created_by.
C26_ActorMayBook ==
    /\ [](\A a \in Users, pin_ok \in BOOLEAN, u \in Users, p \in ProductIds :
            LET r == CreateConsumptionCheck(a, pin_ok, u, p) IN
            /\ r = "ok" => Authenticated(a, pin_ok) /\ MayBookFor(a, u)
            /\ (Authenticated(a, pin_ok) /\ UserExists(u) /\ ~MayBookFor(a, u))
                  => r = "403 Not authorized to book for this user")
    /\ [][/\ ConsumptionRefused => NothingWritten
          /\ \A s \in Sessions :
               ConsumptionAdmitted(s)
               => /\ Authenticated(sess'[s].actor, TRUE)
                  /\ MayBookFor(sess'[s].actor, sess'[s].user_id)
                  /\ consumptions' = consumptions /\ audit' = audit
          /\ consumptions' # consumptions
               => \E s \in Sessions :
                    /\ sess[s].op = "create_consumption"
                    /\ sess[s].pc = "commit" /\ sess'[s].pc = "audit"
                    /\ consumptions' = Append(consumptions, consumptions'[Len(consumptions')])
                    /\ consumptions'[Len(consumptions')].created_by = sess[s].actor
                    /\ consumptions'[Len(consumptions')].user_id = sess[s].user_id]_vars

\* a treasurer booked for another user and the row names the treasurer
C26_Witness ==
    \E i \in DOMAIN consumptions :
        /\ consumptions[i].created_by # consumptions[i].user_id
        /\ UserExists(consumptions[i].created_by)
        /\ users[consumptions[i].created_by].role = "treasurer"

\* the step is the commit of a delete_user request
DeleteCommitted ==
    \E s \in Sessions :
        sess[s].op = "delete_user" /\ sess[s].pc = "commit" /\ sess'[s].pc # "commit"

\* C27: the commit of a delete_user request, whatever its outcome, leaves
\* every consumption, money move and audit entry as it was, and so every
\* user's balance.
C27_DeleteKeepsHistory ==
    [][DeleteCommitted =>
          /\ consumptions' = consumptions
          /\ money_moves' = money_moves
          /\ audit' = audit
          /\ Balances' = Balances]_vars

Admins == OtherAdmins(Null)

\* C28: a delete_user commit never takes away the last active, non-deleted
\* admin.
C28_AdminRemains ==
    [][DeleteCommitted => (Admins # {} => Admins' # {})]_vars

\* C29: every user id held by a consumption (user_id, created_by), a money
\* move (user_id, created_by, and confirmed_by when set) or an audit entry
\* (actor_id) is the id of an existing user row.
C29_ReferencesExist ==
    /\ \A i \in DOMAIN consumptions :
          UserExists(consumptions[i].user_id) /\ UserExists(consumptions[i].created_by)
    /\ \A i \in DOMAIN money_moves :
          /\ UserExists(money_moves[i].user_id) /\ UserExists(money_moves[i].created_by)
          /\ money_moves[i].confirmed_by # Null => UserExists(money_moves[i].confirmed_by)
    /\ \A i \in DOMAIN audit : UserExists(audit[i].actor_id)

\* a user was hard deleted while a money move it had confirmed is on record
C29_Witness ==
    /\ \E u \in Users : ~users[u].exists
    /\ \E i \in DOMAIN money_moves :
          money_moves[i].status = "confirmed" /\ money_moves[i].confirmed_by = Null
    /\ Len(audit) > NumUsers - 1

\* C30: for a pending money move, a Reject by its creator is accepted and its
\* commit leaves the move rejected with confirmed_by = created_by, while a
\* Confirm by the creator is refused with 400 and changes nothing.
C30_SelfReject ==
    [][/\ \A s \in Sessions, m \in MoveIds :
            (/\ Free(s)
             /\ m \in DOMAIN money_moves
             /\ money_moves[m].status = "pending"
             /\ UserExists(money_moves[m].created_by))
            => /\ RejectMoneyMoveBegin(s, m, money_moves[m].created_by)
                    => /\ ~resp'.refused
                       /\ sess'[s].pc = "commit" /\ sess'[s].op = "reject_money_move"
                       /\ sess'[s].actor = money_moves[m].created_by /\ sess'[s].id = m
               /\ ConfirmMoneyMoveBegin(s, m, money_moves[m].created_by)
                    => /\ resp' = Response("confirm_money_move",
                                           "400 Cannot confirm own money move", TRUE)
                       /\ sess' = sess /\ money_moves' = money_moves
       /\ \A s \in Sessions :
            (/\ sess[s].op = "reject_money_move" /\ sess[s].pc = "commit"
             /\ sess[s].actor = money_moves[sess[s].id].created_by
             /\ sess'[s].pc # "commit")
            => /\ sess'[s].pc = "audit"
               /\ money_moves'[sess[s].id].status = "rejected"
               /\ money_moves'[sess[s].id].confirmed_by = money_moves[sess[s].id].created_by]_vars

\* the creator's Reject is on record, and no Confirm of the move is
C30_Witness ==
    /\ \A i \in DOMAIN audit : audit[i].action # "confirm"
    /\ \E m \in DOMAIN money_moves :
          /\ money_moves[m].status = "rejected"
          /\ money_moves[m].confirmed_by = money_moves[m].created_by
          /\ \E i \in DOMAIN audit :
                /\ audit[i].action = "reject" /\ audit[i].entity_id = m
                /\ audit[i].actor_id = money_moves[m].created_by
====
